---- MODULE Spec2Model ----
(***************************************************************************)
(* Model of the public key-provisioning endpoint of claude-relay-service: *)
(* POST /api/generate-key of src/src/routes/publicApiRoutes.js, with its  *)
(* two middlewares (ipWhitelistMiddleware, signatureMiddleware), the      *)
(* route handler, and the signing client of src/test-public-api.js.       *)
(*                                                                         *)
(* One behaviour is one HTTP request going through the route.  Strings   *)
(* whose content the code inspects (the X-Timestamp header, name, the    *)
(* issued key) are sequences of one-character strings; JavaScript values *)
(* are records [t, n, s] (typeof tag, numeric value, characters).         *)
(***************************************************************************)
EXTENDS Integers, Sequences, FiniteSets, TLC

\* ------------------------------------------------------------------ bounds

\* Largest number of members of a request body.
MaxFields == 2

\* Date.now() at the moment the Signature Verifier runs (epoch ms).
ClockBase == 1000000

\* ------------------------------------------------------- program constants

\* publicApiRoutes.js:88, the replay window in ms.
ReplayWindow == 300000

\* publicApiRoutes.js:223 and :252, length of the redacted key prefix.
PrefixLen == 8

\* publicApiRoutes.js:133, default of expirationDays.
DefaultExpirationDays == 30

\* test-public-api.js:8, the shared secret of the test client.
PUBLIC_API_SECRET == "test-secret-key-for-public-api"

\* ------------------------------------------------------ JavaScript values

Undefined == [t |-> "undefined", n |-> 0, s |-> <<>>]
Null == [t |-> "null", n |-> 0, s |-> <<>>]
Num(k) == [t |-> "number", n |-> k, s |-> <<>>]
Str(cs) == [t |-> "string", n |-> 0, s |-> cs]
Bool(b) == [t |-> "boolean", n |-> IF b THEN 1 ELSE 0, s |-> <<>>]

\* ToBoolean: undefined, null, false, 0 and "" are falsy.
Truthy(v) ==
  CASE v.t = "undefined" -> FALSE
    [] v.t = "null" -> FALSE
    [] v.t = "boolean" -> v.n = 1
    [] v.t = "number" -> v.n # 0
    [] v.t = "string" -> Len(v.s) > 0
    [] OTHER -> TRUE

TypeOf(v) == IF v.t = "null" THEN "object" ELSE v.t

Abs(x) == IF x < 0 THEN 0 - x ELSE x

Min(a, b) == IF a < b THEN a ELSE b

DigitChars == <<"0", "1", "2", "3", "4", "5", "6", "7", "8", "9">>

IsDigit(c) == \E i \in 1..10 : DigitChars[i] = c

DigitVal(c) == (CHOOSE i \in 1..10 : DigitChars[i] = c) - 1

IsSpace(c) == c = " "

\* Number.prototype.toString / Date.now().toString(): decimal digits.
RECURSIVE NatDigits(_)
NatDigits(k) ==
  IF k < 10 THEN <<DigitChars[k + 1]>>
  ELSE NatDigits(k \div 10) \o <<DigitChars[(k % 10) + 1]>>

ToDigits(k) == IF k < 0 THEN <<"-">> \o NatDigits(0 - k) ELSE NatDigits(k)

\* String.prototype.trim over the model's one whitespace character.
RECURSIVE TrimLeft(_)
TrimLeft(cs) ==
  IF cs # <<>> /\ IsSpace(Head(cs)) THEN TrimLeft(Tail(cs)) ELSE cs

RECURSIVE TrimRight(_)
TrimRight(cs) ==
  IF cs # <<>> /\ IsSpace(cs[Len(cs)])
  THEN TrimRight(SubSeq(cs, 1, Len(cs) - 1))
  ELSE cs

Trim(cs) == TrimRight(TrimLeft(cs))

\* String.prototype.substring(0, k).
Substring0(cs, k) == SubSeq(cs, 1, Min(k, Len(cs)))

\* parseInt(string): leading whitespace is skipped, an optional sign is
\* read, then the longest run of decimal digits; no digit at all is NaN.
RECURSIVE LeadingDigits(_)
LeadingDigits(cs) ==
  IF cs # <<>> /\ IsDigit(Head(cs))
  THEN <<Head(cs)>> \o LeadingDigits(Tail(cs))
  ELSE <<>>

RECURSIVE DigitsValue(_, _)
DigitsValue(ds, acc) ==
  IF ds = <<>> THEN acc
  ELSE DigitsValue(Tail(ds), acc * 10 + DigitVal(Head(ds)))

NaN == [nan |-> TRUE, n |-> 0]

parseInt(cs) ==
  LET t == TrimLeft(cs)
      neg == t # <<>> /\ Head(t) = "-"
      signed == t # <<>> /\ (Head(t) = "-" \/ Head(t) = "+")
      ds == LeadingDigits(IF signed THEN Tail(t) ELSE t)
  IN IF ds = <<>> THEN NaN
     ELSE [nan |-> FALSE,
           n |-> IF neg THEN 0 - DigitsValue(ds, 0) ELSE DigitsValue(ds, 0)]

\* ---------------------------------------------------------- request body

\* req.body as parsed from JSON: a sequence of members [k, v] in the order
\* of the wire text, keys distinct.
Keys ==
  {"name", "description", "expirationDays", "tokenLimit", "dailyCostLimit",
   "monthlyCostLimit", "notifyFeishu", "feishuWebhook"}

LimitKeys == {"tokenLimit", "dailyCostLimit", "monthlyCostLimit"}

HasKey(body, key) == \E i \in 1..Len(body) : body[i].k = key

\* Property read (and destructuring without default): undefined when absent.
Field(body, key) ==
  IF HasKey(body, key)
  THEN body[CHOOSE i \in 1..Len(body) : body[i].k = key].v
  ELSE Undefined

\* Destructuring with a default: the default replaces undefined only.
FieldOr(body, key, default) ==
  IF Field(body, key).t = "undefined" THEN default ELSE Field(body, key)

\* JSON.stringify of one value.
ValueText(v) ==
  CASE v.t = "number" -> ToDigits(v.n)
    [] v.t = "string" -> <<"\"">> \o v.s \o <<"\"">>
    [] v.t = "boolean" -> IF v.n = 1 THEN <<"true">> ELSE <<"false">>
    [] OTHER -> <<"null">>

RECURSIVE MembersText(_)
MembersText(body) ==
  IF body = <<>> THEN <<>>
  ELSE <<"\"", Head(body).k, "\"", ":">> \o ValueText(Head(body).v)
       \o (IF Len(body) > 1 THEN <<",">> ELSE <<>>)
       \o MembersText(Tail(body))

\* JSON.stringify(body): compact text, members in insertion order.
JSONstringify(body) == <<"{">> \o MembersText(body) \o <<"}">>

\* ---------------------------------------------------------------- signing

\* crypto.createHmac('sha256', key).update(data).digest('hex'): the digest
\* is modelled without collisions, as the pair it was computed from.
HmacSha256Hex(key, data) == [key |-> key, data |-> data]

\* Hex text that is the digest of nothing (test-public-api.js:146).
InvalidHex == [key |-> "", data |-> <<"invalid-signature">>]

\* A header the request does not carry.
NoSignature == [present |-> FALSE, prefix |-> "", hex |-> InvalidHex]
NoTimestamp == [present |-> FALSE, text |-> <<>>]

\* An X-Signature header: a prefix followed by hex text.
SigHeader(prefix, hex) == [present |-> TRUE, prefix |-> prefix, hex |-> hex]

\* An X-Timestamp header with the given characters.
TsHeader(cs) == [present |-> TRUE, text |-> cs]

\* The header as the test client builds it (timestamp: the header's text).
generateSignature(payload, timestamp, secret) ==
  SigHeader("sha256=", HmacSha256Hex(secret, JSONstringify(payload) \o timestamp))

\* !timestamp: a missing header and an empty one are both falsy.
TimestampFalsy(h) == ~h.present \/ h.text = <<>>

\* !signature: the model's signature headers are never the empty string.
SignatureFalsy(h) == ~h.present

\* ---------------------------------------------------------- configuration

\* config.publicApi: present or not; allowedIPs and secret may be unset.
ConfigOf(present, enabled, hasList, list, hasSecret) ==
  [publicApi |-> present, enabled |-> enabled,
   allowedIPs |-> [present |-> hasList, list |-> list],
   secret |-> [present |-> hasSecret, value |-> PUBLIC_API_SECRET]]

IPs == {"10.0.0.1", "10.0.0.2"}

Configs ==
  {ConfigOf(FALSE, FALSE, FALSE, <<>>, TRUE)}
  \cup {ConfigOf(TRUE, e, l[1], l[2], TRUE) :
          e \in BOOLEAN,
          l \in {<<FALSE, <<>>>>, <<TRUE, <<>>>>, <<TRUE, <<"10.0.0.1">>>>}}
  \cup {ConfigOf(TRUE, TRUE, FALSE, <<>>, FALSE)}

\* The configuration the test client expects (test-public-api.js:188-190).
OpenConfig == ConfigOf(TRUE, TRUE, FALSE, <<>>, TRUE)

\* Array.prototype.includes.
Includes(list, x) == \E i \in 1..Len(list) : list[i] = x

\* ------------------------------------------------------------------ inputs

ValuesOf(key) ==
  CASE key = "name" ->
         {Str(<<>>), Str(<<" ">>), Str(<<"X">>), Str(<<" ", "X", " ">>), Num(1)}
    [] key = "description" -> {Str(<<"d", " ">>), Num(7)}
    [] key = "expirationDays" -> {Num(0), Num(7)}
    [] key \in LimitKeys -> {Num(0), Num(0 - 5), Num(10), Str(<<"1", "0">>)}
    [] key = "notifyFeishu" -> {Bool(TRUE), Bool(FALSE)}
    [] OTHER -> {Str(<<"h">>)}

Members == UNION {{[k |-> key, v |-> val] : val \in ValuesOf(key)} : key \in Keys}

\* Bodies of at most MaxFields members with distinct keys, in any order.
RECURSIVE BodiesOfLen(_)
BodiesOfLen(len) ==
  IF len = 0 THEN {<<>>}
  ELSE {Append(b, m) : b \in BodiesOfLen(len - 1), m \in Members}

DistinctKeys(body) ==
  \A i, j \in 1..Len(body) : body[i].k = body[j].k => i = j

Bodies ==
  UNION {{b \in BodiesOfLen(len) : DistinctKeys(b)} : len \in 0..MaxFields}

\* The few bodies sent with every combination of configuration and headers.
ProbeBodies ==
  {<<>>,
   <<[k |-> "name", v |-> Str(<<"X">>)]>>,
   <<[k |-> "name", v |-> Str(<<"X">>)], [k |-> "tokenLimit", v |-> Num(0)]>>}

\* X-Timestamp values around the replay window, and malformed ones.
Timestamps ==
  {NoTimestamp, TsHeader(<<>>), TsHeader(<<"a", "b", "c">>),
   TsHeader(ToDigits(ClockBase) \o <<"x">>)}
  \cup {TsHeader(ToDigits(ClockBase + d)) :
          d \in {0, 0 - ReplayWindow, 0 - ReplayWindow - 1,
                 ReplayWindow, ReplayWindow + 1}}

\* X-Signature values a caller may attach to the body and timestamp it sends.
SignaturesFor(body, ts) ==
  LET good == generateSignature(body, ts.text, PUBLIC_API_SECRET)
  IN {NoSignature,
      good,
      generateSignature(body, ts.text, "wrong-secret"),
      generateSignature(body, ToDigits(ClockBase - ReplayWindow - 1),
                        PUBLIC_API_SECRET),
      generateSignature(<<>>, ts.text, PUBLIC_API_SECRET),
      SigHeader("", good.hex),
      SigHeader("sha256=", InvalidHex)}

Request(ip, signature, timestamp, body) ==
  [ip |-> ip, signature |-> signature, timestamp |-> timestamp, body |-> body]

\* Every configuration and header combination, with the probe bodies.
AuthCases ==
  UNION {{<<c, Request(ip, sig, ts, b)>> :
            c \in Configs, ip \in IPs, sig \in SignaturesFor(b, ts)} :
         ts \in Timestamps, b \in ProbeBodies}

\* Every body, sent by the test client to a service configured for it.
BodyCases ==
  {<<OpenConfig,
     Request("10.0.0.1",
             generateSignature(b, ToDigits(ClockBase), PUBLIC_API_SECRET),
             TsHeader(ToDigits(ClockBase)), b)>> : b \in Bodies}

\* --------------------------------------------------- adapters (external)

\* The options object handed to apiKeyService.generateApiKey.
NoOptions ==
  [name |-> <<>>, description |-> <<>>, tokenLimit |-> Undefined,
   expiresAt |-> Null, dailyCostLimit |-> Undefined,
   monthlyCostLimit |-> Undefined, createdBy |-> "", activationMode |-> ""]

\* What apiKeyService.generateApiKey may do: reject, resolve to nothing, or
\* resolve to a record whose apiKey is missing, empty, a string, or another
\* truthy value; the metadata echoes the options.
IssuedKeys ==
  {Undefined, Str(<<>>), Str(<<"c", "r", "_">>),
   Str(<<"c", "r", "_", "0", "1", "2", "3", "4", "5", "6">>), Num(7)}

NoResult == [threw |-> FALSE, isNull |-> TRUE, apiKey |-> Undefined,
             id |-> "", status |-> "", info |-> NoOptions]

IssuanceOutcomes(options) ==
  {[NoResult EXCEPT !.threw = TRUE], NoResult}
  \cup {[threw |-> FALSE, isNull |-> FALSE, apiKey |-> key, id |-> "key-1",
         status |-> "active", info |-> options] : key \in IssuedKeys}

\* What webhookService.sendNotification may do: resolve or reject.
NotificationOutcomes == {"sent", "threw"}

\* ------------------------------------------------------------------ state

VARIABLES
  config,        \* require('../../config/config')
  req,           \* the request: ip, x-signature, x-timestamp, body
  now,           \* Date.now() as read by the Signature Verifier (0: not read)
  pc,            \* where the request is in the route
  stages,        \* the stages that ran, in order
  response,      \* the response sent by the route
  responses,     \* how many responses the route sent
  issueCalls,    \* calls of apiKeyService.generateApiKey
  issueArgs,     \* the options of the last such call
  apiKeyResult,  \* what the call resolved to
  notifyCalls,   \* calls of webhookService.sendNotification
  notifyArgs,    \* the event data of the last such call
  raised         \* where exceptions were thrown

vars ==
  <<config, req, now, pc, stages, response, responses, issueCalls, issueArgs,
    apiKeyResult, notifyCalls, notifyArgs, raised>>

\* -------------------------------------------------------------- responses

NoData == [present |-> FALSE, id |-> "", keyPrefix |-> <<>>, status |-> "",
           info |-> NoOptions]

NoResponse ==
  [status |-> 0, success |-> FALSE, error |-> "", data |-> NoData,
   apiKey |-> Undefined]

\* res.status(code).json({success: false, error}).
ErrorResponse(code, error) ==
  [NoResponse EXCEPT !.status = code, !.error = error]

\* `${apiKey.substring(0, 8)}...`
KeyPrefix(apiKey) == Substring0(apiKey.s, PrefixLen) \o <<"...">>

\* res.json({success: true, data: {...}, apiKey}), lines 217-232.
SuccessResponse(result) ==
  [status |-> 200, success |-> TRUE, error |-> "",
   data |-> [present |-> TRUE, id |-> result.id,
             keyPrefix |-> KeyPrefix(result.apiKey),
             status |-> result.status, info |-> result.info],
   apiKey |-> result.apiKey]

NoEvent == [sent |-> FALSE, apiKey |-> Undefined, keyPrefix |-> <<>>,
            customWebhook |-> Undefined]

\* ---------------------------------------------------------------- IP Gate

\* Faulty variant: the enabled flag is not consulted.
FeatureDisabledIgnoresFlag(cfg) == ~cfg.publicApi

\* !config.publicApi?.enabled
FeatureDisabled(cfg) == ~(cfg.publicApi /\ cfg.enabled)

\* Faulty variant: an empty allow-list denies every address.
IpDeniedEmptyList(cfg, clientIp) ==
  ~Includes(IF cfg.allowedIPs.present THEN cfg.allowedIPs.list ELSE <<>>,
            clientIp)

\* allowedIPs.length > 0 && !allowedIPs.includes(clientIp)
IpDenied(cfg, clientIp) ==
  LET allowedIPs == IF cfg.allowedIPs.present THEN cfg.allowedIPs.list ELSE <<>>
  IN Len(allowedIPs) > 0 /\ ~Includes(allowedIPs, clientIp)

Respond(r) ==
  /\ response' = r
  /\ responses' = responses + 1
  /\ pc' = "done"

ipWhitelistMiddleware ==
  /\ pc = "gate"
  /\ stages' = Append(stages, "gate")
  /\ IF FeatureDisabled(config)
     THEN Respond(ErrorResponse(403, "Public API is disabled"))
     ELSE IF IpDenied(config, req.ip)
     THEN Respond(ErrorResponse(403, "IP not allowed"))
     ELSE pc' = "verifier" /\ UNCHANGED <<response, responses>>
  /\ UNCHANGED <<config, req, now, issueCalls, issueArgs, apiKeyResult,
                 notifyCalls, notifyArgs, raised>>

\* ----------------------------------------------------- Signature Verifier

Clock == {ClockBase, ClockBase + 1}

\* !signature || !timestamp
HeadersMissing(r) == SignatureFalsy(r.signature) \/ TimestampFalsy(r.timestamp)

\* Faulty variant: Math.abs is dropped, so timestamps of the future are never stale.
TimestampRejectedPastOnly(t, requestTime) ==
  IF requestTime.nan THEN FALSE ELSE t - requestTime.n > ReplayWindow

\* Math.abs(now - requestTime) > 300000; any comparison with NaN is false.
TimestampRejected(t, requestTime) ==
  IF requestTime.nan THEN FALSE ELSE Abs(t - requestTime.n) > ReplayWindow

\* `sha256=${expectedSignature}`, lines 97-99.
ExpectedSignature(cfg, r) ==
  SigHeader("sha256=",
            HmacSha256Hex(cfg.secret.value,
                          JSONstringify(r.body) \o r.timestamp.text))

\* Faulty variant: only the hex text is compared, the prefix is not required.
SignatureRejectedHexOnly(cfg, r) ==
  r.signature.hex #
    HmacSha256Hex(cfg.secret.value, JSONstringify(r.body) \o r.timestamp.text)

\* signature !== `sha256=${expectedSignature}`
SignatureRejected(cfg, r) == r.signature # ExpectedSignature(cfg, r)

\* crypto.createHmac throws a TypeError when the key is undefined.
CreateHmacThrows(cfg) == ~cfg.secret.present

signatureMiddleware ==
  /\ pc = "verifier"
  /\ stages' = Append(stages, "verifier")
  /\ IF HeadersMissing(req)
     THEN /\ Respond(ErrorResponse(401, "Missing signature or timestamp"))
          /\ UNCHANGED <<now, raised>>
     ELSE \E t \in Clock :
            /\ now' = t
            /\ IF TimestampRejected(t, parseInt(req.timestamp.text))
               THEN /\ Respond(ErrorResponse(401,
                                 "Request timestamp too old or invalid"))
                    /\ UNCHANGED raised
               ELSE IF CreateHmacThrows(config)
               THEN /\ raised' = raised \cup {"verifier"}
                    /\ pc' = "unhandled"
                    /\ UNCHANGED <<response, responses>>
               ELSE IF SignatureRejected(config, req)
               THEN /\ Respond(ErrorResponse(401, "Invalid signature"))
                    /\ UNCHANGED raised
               ELSE /\ pc' = "handler"
                    /\ UNCHANGED <<response, responses, raised>>
  /\ UNCHANGED <<config, req, issueCalls, issueArgs, apiKeyResult,
                 notifyCalls, notifyArgs>>

\* ------------------------------------------------------ Endpoint Controller

\* Faulty variant: the name is not trimmed before its length is taken.
NameRejectedNoTrim(name) ==
  ~Truthy(name) \/ TypeOf(name) # "string" \/ Len(name.s) = 0

\* !name || typeof name !== 'string' || name.trim().length === 0
NameRejected(name) ==
  ~Truthy(name) \/ TypeOf(name) # "string" \/ Len(Trim(name.s)) = 0

\* limit && (typeof limit !== 'number' || limit <= 0)
LimitRejected(limit) ==
  Truthy(limit) /\ (TypeOf(limit) # "number" \/ limit.n <= 0)

\* expirationDays && expirationDays > 0, then setDate(getDate() + days);
\* the date is kept as the number of days added to the current date.
ExpiresAt(expirationDays) ==
  IF Truthy(expirationDays) /\ expirationDays.n > 0
  THEN [t |-> "date", n |-> expirationDays.n, s |-> <<>>]
  ELSE Null

\* description?.trim(): a value that is neither nullish nor a string has no
\* trim method, and calling it throws a TypeError.
DescriptionThrows(description) ==
  description.t \notin {"undefined", "null", "string"}

\* description?.trim() || ''
DescriptionText(description) ==
  IF description.t = "string" THEN Trim(description.s) ELSE <<>>

\* apiKeyOptions, lines 178-187.
ApiKeyOptions(body) ==
  [name |-> Trim(Field(body, "name").s),
   description |-> DescriptionText(Field(body, "description")),
   tokenLimit |-> Field(body, "tokenLimit"),
   expiresAt |-> ExpiresAt(FieldOr(body, "expirationDays",
                                   Num(DefaultExpirationDays))),
   dailyCostLimit |-> Field(body, "dailyCostLimit"),
   monthlyCostLimit |-> Field(body, "monthlyCostLimit"),
   createdBy |-> "public-api",
   activationMode |-> "immediate"]

\* The catch of lines 233-239.
CatchInternal(where) ==
  /\ raised' = raised \cup {where}
  /\ Respond(ErrorResponse(500, "Internal server error"))

\* Lines 129-189: parameter validation, option building, the issuance call.
ValidateAndIssue ==
  /\ pc = "handler"
  /\ IF NameRejected(Field(req.body, "name"))
     THEN /\ Respond(ErrorResponse(400,
                       "Name is required and must be a non-empty string"))
          /\ stages' = Append(stages, "validation")
          /\ UNCHANGED <<issueCalls, issueArgs, raised>>
     ELSE IF LimitRejected(Field(req.body, "tokenLimit"))
     THEN /\ Respond(ErrorResponse(400, "Token limit must be a positive number"))
          /\ stages' = Append(stages, "validation")
          /\ UNCHANGED <<issueCalls, issueArgs, raised>>
     ELSE IF LimitRejected(Field(req.body, "dailyCostLimit"))
     THEN /\ Respond(ErrorResponse(400,
                       "Daily cost limit must be a positive number"))
          /\ stages' = Append(stages, "validation")
          /\ UNCHANGED <<issueCalls, issueArgs, raised>>
     ELSE IF LimitRejected(Field(req.body, "monthlyCostLimit"))
     THEN /\ Respond(ErrorResponse(400,
                       "Monthly cost limit must be a positive number"))
          /\ stages' = Append(stages, "validation")
          /\ UNCHANGED <<issueCalls, issueArgs, raised>>
     ELSE IF DescriptionThrows(Field(req.body, "description"))
     THEN /\ CatchInternal("handler")
          /\ stages' = Append(stages, "validation")
          /\ UNCHANGED <<issueCalls, issueArgs>>
     ELSE /\ issueCalls' = issueCalls + 1
          /\ issueArgs' = ApiKeyOptions(req.body)
          /\ pc' = "issuing"
          /\ stages' = stages \o <<"validation", "issuance">>
          /\ UNCHANGED <<response, responses, raised>>
  /\ UNCHANGED <<config, req, now, apiKeyResult, notifyCalls, notifyArgs>>

\* Faulty variant: only a missing result is treated as a failure.
NoKeyReturnedNullOnly(result) == result.isNull

\* !apiKeyResult || !apiKeyResult.apiKey
NoKeyReturned(result) == result.isNull \/ ~Truthy(result.apiKey)

\* Lines 189-203: the issuance call settles.
IssuanceSettles ==
  /\ pc = "issuing"
  /\ \E result \in IssuanceOutcomes(issueArgs) :
       /\ apiKeyResult' = result
       /\ IF result.threw
          THEN CatchInternal("issuance")
          ELSE IF NoKeyReturned(result)
          THEN /\ Respond(ErrorResponse(500, "Failed to generate API key"))
               /\ UNCHANGED raised
          ELSE /\ pc' = IF Truthy(FieldOr(req.body, "notifyFeishu", Bool(TRUE)))
                        THEN "notifying" ELSE "shaping"
               /\ UNCHANGED <<response, responses, raised>>
  /\ UNCHANGED <<config, req, now, stages, issueCalls, issueArgs, notifyCalls,
                 notifyArgs>>

\* apiKey.substring is a method of strings only.
SubstringThrows(apiKey) == apiKey.t # "string"

\* Faulty variant: a rejected notification reaches the handler's outer catch.
NotifyPropagates ==
  /\ pc = "notifying"
  /\ stages' = Append(stages, "notification")
  /\ IF SubstringThrows(apiKeyResult.apiKey)
     THEN /\ raised' = raised \cup {"notification"}
          /\ pc' = "shaping"
          /\ UNCHANGED <<notifyCalls, notifyArgs, response, responses>>
     ELSE \E outcome \in NotificationOutcomes :
            /\ notifyCalls' = notifyCalls + 1
            /\ notifyArgs' = [sent |-> outcome = "sent",
                              apiKey |-> apiKeyResult.apiKey,
                              keyPrefix |-> KeyPrefix(apiKeyResult.apiKey),
                              customWebhook |-> Field(req.body, "feishuWebhook")]
            /\ IF outcome = "threw"
               THEN CatchInternal("notification")
               ELSE /\ pc' = "shaping"
                    /\ UNCHANGED <<raised, response, responses>>
  /\ UNCHANGED <<config, req, now, issueCalls, issueArgs, apiKeyResult>>

\* Lines 203-214 with sendApiKeyCreatedNotification (245-268): the event data
\* is built, the adapter is called once, and whatever is thrown is logged,
\* rethrown by the helper and swallowed by the handler.
Notify ==
  /\ pc = "notifying"
  /\ stages' = Append(stages, "notification")
  /\ pc' = "shaping"
  /\ IF SubstringThrows(apiKeyResult.apiKey)
     THEN /\ raised' = raised \cup {"notification"}
          /\ UNCHANGED <<notifyCalls, notifyArgs>>
     ELSE \E outcome \in NotificationOutcomes :
            /\ notifyCalls' = notifyCalls + 1
            /\ notifyArgs' = [sent |-> outcome = "sent",
                              apiKey |-> apiKeyResult.apiKey,
                              keyPrefix |-> KeyPrefix(apiKeyResult.apiKey),
                              customWebhook |-> Field(req.body, "feishuWebhook")]
            /\ raised' = IF outcome = "threw"
                         THEN raised \cup {"notification"} ELSE raised
  /\ UNCHANGED <<config, req, now, response, responses, issueCalls, issueArgs,
                 apiKeyResult>>

\* Lines 216-239: the success response, or the catch when building it throws.
ShapeResponse ==
  /\ pc = "shaping"
  /\ IF SubstringThrows(apiKeyResult.apiKey)
     THEN CatchInternal("shaping")
     ELSE /\ Respond(SuccessResponse(apiKeyResult))
          /\ UNCHANGED raised
  /\ UNCHANGED <<config, req, now, stages, issueCalls, issueArgs, apiKeyResult,
                 notifyCalls, notifyArgs>>

\* ---------------------------------------------------------- specification

Init ==
  /\ \E case \in AuthCases \cup BodyCases :
       /\ config = case[1]
       /\ req = case[2]
  /\ now = 0
  /\ pc = "gate"
  /\ stages = <<>>
  /\ response = NoResponse
  /\ responses = 0
  /\ issueCalls = 0
  /\ issueArgs = NoOptions
  /\ apiKeyResult = NoResult
  /\ notifyCalls = 0
  /\ notifyArgs = NoEvent
  /\ raised = {}

Next ==
  \/ ipWhitelistMiddleware
  \/ signatureMiddleware
  \/ ValidateAndIssue
  \/ IssuanceSettles
  \/ Notify
  \/ ShapeResponse

Spec == Init /\ [][Next]_vars

\* ----------------------------------------------------- request properties

\* The feature-enable flag is off.
FlagOff == ~config.publicApi \/ ~config.enabled

\* The allow-list is non-empty and the source IP is not a member.
ListedOut ==
  /\ config.allowedIPs.present
  /\ config.allowedIPs.list # <<>>
  /\ \A i \in 1..Len(config.allowedIPs.list) : config.allowedIPs.list[i] # req.ip

PassesGate == ~FlagOff /\ ~ListedOut

\* The X-Signature header is what the test client computes for this body and
\* this timestamp header with the configured secret.
SignedAsClient ==
  /\ req.timestamp.present
  /\ req.signature =
       generateSignature(req.body, req.timestamp.text, config.secret.value)

BothHeaders ==
  /\ req.signature.present
  /\ req.timestamp.present
  /\ req.timestamp.text # <<>>

\* The X-Timestamp header as a number.
RequestTime == parseInt(req.timestamp.text)

\* The Verifier ran and called next().
VerifierAccepted ==
  /\ Len(stages) >= 2
  /\ pc \in {"handler", "issuing", "notifying", "shaping"} \/ Len(stages) >= 3

\* The issuance adapter resolved to a record that carries a key.
KeyIssued ==
  /\ issueCalls >= 1
  /\ pc # "issuing"
  /\ ~apiKeyResult.threw
  /\ ~apiKeyResult.isNull
  /\ apiKeyResult.apiKey \notin {Undefined, Null, Str(<<>>)}

NameValid ==
  LET name == Field(req.body, "name")
  IN name.t = "string" /\ \E i \in 1..Len(name.s) : name.s[i] # " "

PositiveNumber(v) == v.t = "number" /\ v.n > 0

CanonicalOrder ==
  <<"gate", "verifier", "validation", "issuance", "notification">>

\* ------------------------------------------------------------------ claims

\* C1: while the feature-enable flag is off, the route never leaves the IP
\* Gate, every response is 403 whatever the source IP, the headers and the
\* signature are, and the issuance adapter is never invoked.
C1_DisabledIs403 ==
  FlagOff =>
    /\ pc \in {"gate", "done"}
    /\ issueCalls = 0
    /\ notifyCalls = 0
    /\ pc = "done" =>
         /\ response.status = 403
         /\ ~response.success
         /\ stages = <<"gate">>

\* C1 witness: a correctly signed, fresh request was answered 403 because
\* the flag is off.
C1_Witness ==
  /\ pc = "done"
  /\ FlagOff
  /\ SignedAsClient
  /\ RequestTime = [nan |-> FALSE, n |-> ClockBase]
  /\ response.status = 403

\* C2 as stated: every answered request whose X-Signature header is not the
\* prefixed HMAC of body + timestamp is answered 401 and never reaches the
\* issuance adapter.
C2_MismatchAlways401 ==
  (pc = "done" /\ config.secret.present /\ ~SignedAsClient) =>
    (response.status = 401 /\ issueCalls = 0)

\* C2 amended: for a request that passes the IP Gate under a configuration
\* with a secret, a header that is not the prefixed HMAC of body + timestamp
\* (a header without the prefix included) is answered 401 and never reaches
\* the issuance adapter; a request signed as the test client signs it is
\* never answered "Invalid signature".
C2_MismatchIs401AfterGate ==
  /\ (config.secret.present /\ PassesGate /\ ~SignedAsClient) =>
       /\ pc \in {"gate", "verifier", "done"}
       /\ issueCalls = 0
       /\ pc = "done" => response.status = 401
  /\ (config.secret.present /\ SignedAsClient) =>
       response.error # "Invalid signature"

\* C2 witness: a request with fresh timestamp whose header carries the right
\* hex text without the prefix was answered "Invalid signature".
C2_Witness ==
  /\ pc = "done"
  /\ PassesGate
  /\ req.timestamp.present
  /\ req.signature.prefix = ""
  /\ req.signature.hex =
       generateSignature(req.body, req.timestamp.text, config.secret.value).hex
  /\ response = ErrorResponse(401, "Invalid signature")

\* C3: a request that passed the IP Gate with both headers and a timestamp
\* more than 300000 ms away from the Verifier's clock is answered 401 by the
\* freshness check, whether or not it is correctly signed (and before the
\* HMAC is computed).
C3_StaleIs401 ==
  (/\ PassesGate
   /\ BothHeaders
   /\ now # 0
   /\ ~RequestTime.nan
   /\ Abs(now - RequestTime.n) > ReplayWindow) =>
    /\ pc = "done"
    /\ response = ErrorResponse(401, "Request timestamp too old or invalid")
    /\ issueCalls = 0
    /\ raised = {}

\* C3 witness: a correctly signed request with a timestamp of the future
\* was answered 401.
C3_Witness ==
  /\ pc = "done"
  /\ PassesGate
  /\ config.secret.present
  /\ SignedAsClient
  /\ ~RequestTime.nan
  /\ RequestTime.n - now > ReplayWindow
  /\ response.status = 401

\* C4: with the feature enabled, a source IP outside a non-empty allow-list
\* is answered 403 and neither the Verifier nor the issuance adapter runs;
\* with an empty or absent allow-list the Gate lets every request through.
C4_AllowList ==
  /\ (~FlagOff /\ ListedOut) =>
       /\ pc \in {"gate", "done"}
       /\ now = 0
       /\ issueCalls = 0
       /\ pc = "done" => (response.status = 403 /\ stages = <<"gate">>)
  /\ (~FlagOff /\ (~config.allowedIPs.present \/ config.allowedIPs.list = <<>>)) =>
       /\ response.error # "IP not allowed"
       /\ pc = "done" => Len(stages) >= 2

\* C4 witness: a correctly signed request from an address outside the list
\* was answered 403.
C4_Witness ==
  /\ pc = "done"
  /\ ~FlagOff
  /\ ListedOut
  /\ SignedAsClient
  /\ response = ErrorResponse(403, "IP not allowed")

\* C5: the stages run in the order Gate, Verifier, validation, issuance,
\* notification; the issuance adapter is called at most once and only after
\* the Gate allowed, the Verifier accepted and the parameters passed their
\* validation; the notification adapter is called at most once and only
\* after issuance returned a key; a 403, 401 or 400 response comes with no
\* issuance call and no notification call; at most one response is sent.
C5_StageOrder ==
  /\ Len(stages) <= Len(CanonicalOrder)
  /\ \A i \in 1..Len(stages) : stages[i] = CanonicalOrder[i]
  /\ issueCalls <= 1
  /\ notifyCalls <= 1
  /\ responses <= 1
  /\ issueCalls = 1 =>
       /\ PassesGate
       /\ BothHeaders
       /\ SignedAsClient
       /\ NameValid
       /\ \A key \in LimitKeys :
            ~Truthy(Field(req.body, key)) \/ PositiveNumber(Field(req.body, key))
       /\ SubSeq(stages, 1, 4) = SubSeq(CanonicalOrder, 1, 4)
  /\ notifyCalls = 1 => (KeyIssued /\ stages = CanonicalOrder)
  /\ (pc = "done" /\ response.status \in {400, 401, 403}) =>
       (issueCalls = 0 /\ notifyCalls = 0)

\* C5 witness: a request went through every stage and was answered 200.
C5_Witness ==
  /\ pc = "done"
  /\ stages = CanonicalOrder
  /\ issueCalls = 1
  /\ notifyCalls = 1
  /\ response.status = 200

\* The message of the 400 response for a limit.
LimitMessage(key) ==
  CASE key = "tokenLimit" -> "Token limit must be a positive number"
    [] key = "dailyCostLimit" -> "Daily cost limit must be a positive number"
    [] OTHER -> "Monthly cost limit must be a positive number"

\* C6: a limit that is provided and is not a positive number is answered
\* 400 with the message of that limit (when it is the only such limit of a
\* request that reached parameter validation with a valid name), and the
\* issuance adapter is never called with a present limit that is not a
\* positive number.
C6_PresentLimitsPositive ==
  \A key \in LimitKeys :
    (HasKey(req.body, key) /\ ~PositiveNumber(Field(req.body, key))) =>
      /\ issueCalls = 0
      /\ (/\ pc = "done"
          /\ VerifierAccepted
          /\ NameValid
          /\ \A other \in LimitKeys \ {key} : ~HasKey(req.body, other)) =>
           response = ErrorResponse(400, LimitMessage(key))

\* The notification adapter was called and threw.
NotificationThrew == notifyCalls = 1 /\ ~notifyArgs.sent

\* C7: after a successful issuance, a notification adapter that throws
\* leaves the outcome as it is: no error response, no second notification
\* call, no second issuance call, and the response is 200 with the metadata
\* and the full key.
C7_NotificationFailureAbsorbed ==
  NotificationThrew =>
    /\ KeyIssued
    /\ issueCalls = 1
    /\ pc \in {"shaping", "done"}
    /\ raised = {"notification"}
    /\ pc = "shaping" => responses = 0
    /\ pc = "done" =>
         /\ responses = 1
         /\ response.status = 200
         /\ response.success
         /\ response.apiKey = apiKeyResult.apiKey
         /\ response.data.present
         /\ response.data.id = apiKeyResult.id
         /\ response.data.info = issueArgs
         /\ response.data.keyPrefix =
              SubSeq(apiKeyResult.apiKey.s, 1,
                     Min(PrefixLen, Len(apiKeyResult.apiKey.s))) \o <<"...">>

\* C7 witness: the notification adapter threw and the request was answered
\* 200 with the key.
C7_Witness ==
  /\ pc = "done"
  /\ NotificationThrew
  /\ response.status = 200
  /\ response.apiKey = apiKeyResult.apiKey

\* The issuance adapter resolved to nothing, or to a record without a key.
IssuedNothing ==
  /\ issueCalls = 1
  /\ pc # "issuing"
  /\ ~apiKeyResult.threw
  /\ apiKeyResult.isNull \/ apiKeyResult.apiKey \in {Undefined, Str(<<>>)}

\* C8: when the issuance adapter returns no result or a result without a
\* key, the response is 500 "Failed to generate API key" with no apiKey and
\* no data, and the notification adapter is not invoked.
C8_IssuanceFailureIs500 ==
  IssuedNothing =>
    /\ pc = "done"
    /\ response = ErrorResponse(500, "Failed to generate API key")
    /\ response.apiKey = Undefined
    /\ ~response.data.present
    /\ notifyCalls = 0
    /\ stages = SubSeq(CanonicalOrder, 1, 4)

\* C8 witness: the adapter resolved to a record without a key for a request
\* that asks for a notification, and the request was answered 500.
C8_Witness ==
  /\ pc = "done"
  /\ IssuedNothing
  /\ ~apiKeyResult.isNull
  /\ Truthy(FieldOr(req.body, "notifyFeishu", Bool(TRUE)))
  /\ response.status = 500

\* C9: an exception raised in the Gate, the Verifier, the parameter
\* handling, the issuance adapter or the response shaping ends the request
\* with one 500 response {success: false, error: "Internal server error"},
\* and that response is never sent after a key was issued.
C9_ExceptionIsGeneric500 ==
  /\ (raised \ {"notification"} # {}) =>
       /\ pc = "done"
       /\ responses = 1
       /\ response = ErrorResponse(500, "Internal server error")
  /\ response = ErrorResponse(500, "Internal server error") => ~KeyIssued

\* C10: a request the Signature Verifier accepted has a timestamp header
\* that parses to an integer within 300000 ms of the Verifier's clock.
C10_AcceptedTimestampFresh ==
  VerifierAccepted =>
    /\ ~RequestTime.nan
    /\ Abs(now - RequestTime.n) <= ReplayWindow

====
